---- MODULE Spec2Model ----
(***************************************************************************)
(* Space Explorer dashboard: the Flask request handlers of app.py, the     *)
(* three provider clients (N2YOService, GeminiService, TTSService) and the *)
(* flask-limiter rate limiter built by create_limiter.                     *)
(*                                                                         *)
(* A request is served by one worker thread (Flask serves threaded).  A    *)
(* worker runs from one suspension point to the next in one action: the    *)
(* limiter decorator, the part of the view up to the first outbound HTTP   *)
(* call, and the continuation after each outbound call returns.            *)
(*                                                                         *)
(* The limiter is configured in services/rate_limiter.py with no strategy, *)
(* which is flask-limiter's fixed-window strategy over the storage named   *)
(* by storage_uri: a hit increments the counter of the key and compares    *)
(* the new value with the limit; the counter of a key expires one period   *)
(* after the hit that created it.                                          *)
(***************************************************************************)
EXTENDS Integers, Sequences, FiniteSets, TLC

VARIABLES
    env,           \* os.environ: the credentials and MOCK_MODE
    now,           \* time.time()
    storage,       \* the limiter's counters, by key
    expirations,   \* the limiter's expiry times, by key
    pc,            \* where each worker thread is
    req,           \* the request a worker serves
    result,        \* the chat result a worker holds
    audio_result,  \* the speech result a worker holds
    resp,          \* the response a worker has built
    calls,         \* the provider calls a worker has made, in order
    log,           \* the lines a worker has printed, in order
    hits,          \* history: units the worker's request added to the ledger
    full,          \* history: the window had the limit admitted before this one
    verdict,       \* history: the limiter's decision on the worker's request
    admitted,      \* history: requests admitted in the current window, by key
    sent,          \* history: requests per tick over the last period, by key
    rejected,      \* history: a request of the key was once rejected
    issued,        \* requests received so far
    burst,         \* the key of the bursting client
    burstBody,     \* the request the bursting client repeats
    ctxIn, ctxOut  \* input and output of the context builder

vars == <<env, now, storage, expirations, pc, req, result, audio_result, resp,
          calls, log, hits, full, verdict, admitted, sent, rejected, issued,
          burst, burstBody, ctxIn, ctxOut>>

None == "None"

\* ------------------------------------------------------------------ bounds
Workers == {"w1", "w2"}
FirstWorker == "w1"   \* the thread an arriving request gets when it is idle
Identities == {"A", "B"}
PeriodTicks == 2      \* clock ticks in the limiter's one minute
MaxRequests == 2      \* requests received in one run of the dispatcher
MaxOver == 1          \* requests a bursting client sends beyond the limit
MaxHist == 4          \* longest conversation history
MaxTime == PeriodTicks       \* the clock runs until the first window is over
MaxOther == MaxRequests - 1  \* requests received besides the burst

\* --------------------------------------------------------------- endpoints
Endpoints == {"get_iss_position", "ask_ai", "ask_ai_with_voice"}

Keys == Identities \X Endpoints

ISS_LIMIT == 15
ASK_LIMIT == 10
VOICE_LIMIT == 10

\* @limiter.limit("N per minute") of each view
RouteLimit(ep) ==
    CASE ep = "get_iss_position" -> ISS_LIMIT
      [] ep = "ask_ai" -> ASK_LIMIT
      [] ep = "ask_ai_with_voice" -> VOICE_LIMIT

\* Limiter(... key_func=get_remote_address ...): the ledger key of a request
\* is the caller's address together with the decorated view
key_func_shared(id, ep) == <<"A", ep>>
key_func(id, ep) == <<id, ep>>

\* Limiter(...) is built without headers_enabled
headers_enabled == FALSE

\* ---------------------------------------------------------------- strings
RECURSIVE lstrip(_)
lstrip(s) == IF s # <<>> /\ Head(s) = " " THEN lstrip(Tail(s)) ELSE s

RECURSIVE rstrip(_)
rstrip(s) ==
    IF s # <<>> /\ s[Len(s)] = " " THEN rstrip(SubSeq(s, 1, Len(s) - 1)) ELSE s

\* str.strip()
strip(s) == rstrip(lstrip(s))


\* ------------------------------------------------- conversation context
Questions == {"q1", "q2"}
Turns == {[question |-> "q1", response |-> "r1"],
          [question |-> "q2", response |-> "r2"]}

SeqsUpTo(S, n) == UNION {[1..k -> S] : k \in 0..n}

Max(a, b) == IF a > b THEN a ELSE b
Min(a, b) == IF a < b THEN a ELSE b

\* conversation_history[-3:]
LastTwo(h) == SubSeq(h, Max(1, Len(h) - 1), Len(h))
LastThree(h) == SubSeq(h, Max(1, Len(h) - 2), Len(h))

\* f"Child: {msg["question"]}\nSpace Guide: {msg["response"]}"
TurnText(msg) == <<"Child:", msg.question, "Space Guide:", msg.response>>

RECURSIVE Join(_)
Join(ts) == IF ts = <<>> THEN <<>> ELSE TurnText(Head(ts)) \o Join(Tail(ts))

\* the prompt of GeminiService.ask_question, as the sequence of its parts;
\* an absent or empty history is falsy and takes the else branch
full_prompt(question, conversation_history) ==
    IF conversation_history # <<>>
    THEN <<"system_prompt", "Previous conversation:">>
             \o Join(LastThree(conversation_history))
             \o <<"Child:", question, "Space Guide:">>
    ELSE <<"system_prompt", "Child:", question, "Space Guide:">>

\* ------------------------------------------------------------ rate limiter
\* MemoryStorage.get: a counter whose expiry has passed reads as absent
Expired(k) == expirations[k] <= now

Count(k) == IF Expired(k) THEN 0 ELSE storage[k]

\* the expiry of a key after a hit: set by the hit that creates the counter
WindowExpiry_renewed(k) ==
    IF Count(k) = 0 \/ Count(k) >= RouteLimit(k[2]) THEN now + PeriodTicks
    ELSE expirations[k]
WindowExpiry_elastic(k) == now + PeriodTicks
WindowExpiry(k) == IF Count(k) = 0 THEN now + PeriodTicks ELSE expirations[k]

\* FixedWindowRateLimiter.hit: storage.incr(key) <= limit
WithinLimit_off_by_one(count, ep) == count <= RouteLimit(ep) + 1
WithinLimit(count, ep) == count <= RouteLimit(ep)

\* the 429 response of flask-limiter: the body is the limit's description,
\* rate-limit headers are sent only when headers_enabled
RateLimitExceeded(k) ==
    [status_code |-> 429,
     description |-> "N per 1 minute",
     headers |-> IF headers_enabled
                 THEN {<<"Retry-After", WindowExpiry(k) - now>>}
                 ELSE {}]

\* ------------------------------------------------------- provider clients
Configured(key) == key # None

\* N2YOService.get_mock_data
get_mock_data ==
    [satellite_name |-> "ISS", latitude |-> "25.2048", longitude |-> "55.2708",
     altitude_km |-> "408.5", timestamp |-> now, status |-> "success"]

\* N2YOService.get_iss_position before the outbound call: mock mode or no key
N2YOShortCircuit == env.MOCK_MODE \/ ~Configured(env.N2YO_API_KEY)

\* an f-string is the sequence of its parts
\* requests.get(url, params={"apiKey": self.api_key}): the URL requested
n2yo_url == <<"https://api.n2yo.com/rest/v1/satellite/positions/25544/?apiKey=",
              env.N2YO_API_KEY>>

\* f"https://texttospeech.googleapis.com/v1/text:synthesize?key={self.api_key}"
tts_url == <<"https://texttospeech.googleapis.com/v1/text:synthesize?key=",
             env.GOOGLE_API_KEY>>

\* str(error): the HTTPError of raise_for_status names the URL requested,
\* a timeout does not
str_error(outcome, url) ==
    IF outcome = "HTTPError" THEN <<"Client Error for url:">> \o url
    ELSE <<outcome>>

\* what requests.get, raise_for_status and response.json can produce: a
\* reply, a non-success status (HTTPError), another RequestException
\* (timeout, connection error) or another exception (unparsable body)
N2YOOutcomes ==
    {"positions", "no_positions", "HTTPError", "RequestException", "Exception"}

\* the lines get_iss_position prints after the outbound call
n2yo_print(outcome) ==
    CASE outcome \in {"HTTPError", "RequestException"} ->
           <<<<"API request failed, using mock data:">>
                 \o str_error(outcome, n2yo_url)>>
      [] outcome = "Exception" ->
           <<<<"Unexpected error, using mock data:">>
                 \o str_error(outcome, n2yo_url)>>
      [] OTHER -> <<>>

\* N2YOService.get_iss_position after the outbound call
n2yo_result(outcome) ==
    CASE outcome = "positions" ->
           [satellite_name |-> "ISS", latitude |-> "lat", longitude |-> "lng",
            altitude_km |-> "alt", timestamp |-> now, status |-> "success",
            data_source |-> "n2yo_api"]
      [] outcome = "no_positions" ->
           [status |-> "error", message |-> "No position data available"]
      [] outcome = "HTTPError" -> get_mock_data
      [] outcome = "RequestException" -> get_mock_data
      [] outcome = "Exception" -> get_mock_data

\* GeminiService.ask_question when self.model is None
gemini_mock ==
    [status |-> "success", response |-> "demo response", source |-> "Mock"]

\* what model.generate_content and response.text can produce: a reply, or
\* an exception (network error, timeout, blocked or malformed reply)
Replies == {"reply"}
GeminiOutcomes == Replies \cup {"Exception"}

\* GeminiService.ask_question after generate_content
gemini_result(outcome) ==
    IF outcome \in Replies
    THEN [status |-> "success", response |-> outcome, source |-> "gemini"]
    ELSE [status |-> "error", response |-> "Sorry, I had trouble",
          source |-> "error"]

\* the line ask_question prints in its except branch
gemini_print(outcome) ==
    IF outcome \in Replies THEN <<>>
    ELSE <<<<"Gemini API error:", outcome>>>>

\* TTSService.text_to_speech without a key
tts_unavailable == [status |-> "error", message |-> "TTS service not available"]

\* what requests.post, raise_for_status and response.json can produce
TTSOutcomes == {"audioContent", "no_audioContent", "HTTPError", "Exception"}

\* TTSService.text_to_speech after the outbound call
tts_result(outcome) ==
    CASE outcome = "audioContent" ->
           [status |-> "success", audio_data |-> "base64", source |-> "google_tts"]
      [] outcome = "no_audioContent" ->
           [status |-> "error", message |-> "No audio data returned"]
      [] outcome \in {"HTTPError", "Exception"} ->
           [status |-> "error",
            message |-> <<"Text To Speech failed:">>
                            \o str_error(outcome, tts_url)]

\* the line text_to_speech prints in its except branch
tts_print(outcome) ==
    IF outcome \in {"HTTPError", "Exception"}
    THEN <<<<"TTS Error:">> \o str_error(outcome, tts_url)>>
    ELSE <<>>

\* dict.get(key): None when the key is absent
Get(d, f) == IF f \in DOMAIN d THEN d[f] ELSE None

\* the outbound calls of the three clients
Outbound == {"requests.get", "requests.post", "generate_content"}

\* requests.get(url, params=params, timeout=10) and
\* requests.post(url, json=payload, timeout=10)
TIMEOUT == 10

\* the timeout each outbound call is given: generate_content(full_prompt) is
\* called with none
timeout(fn) ==
    CASE fn = "requests.get" -> {TIMEOUT}
      [] fn = "requests.post" -> {TIMEOUT}
      [] fn = "generate_content" -> {}


\* ------------------------------------------------------------- responses
\* jsonify(body) answers 200 with the body
jsonify(body) == [status_code |-> 200, json |-> body]

ValidationError(msg) == jsonify([status |-> "error", message |-> msg])

\* the except branch of ask_ai and ask_ai_with_voice
SomethingWentWrong ==
    jsonify([status |-> "error", message |-> "Sorry, something went wrong"])

\* the combined text and audio response of ask_ai_with_voice
VoiceEnvelope_audio_always(res, audio) ==
    jsonify([status |-> "success",
             response |-> res.response,
             audio_data |-> Get(audio, "audio_data"),
             audio_available |-> TRUE,
             source |-> res.source])
VoiceEnvelope(res, audio) ==
    jsonify([status |-> "success",
             response |-> res.response,
             audio_data |-> Get(audio, "audio_data"),
             audio_available |-> (audio.status = "success"),
             source |-> res.source])

Call(fn, arg) == [fn |-> fn, arg |-> arg]

NoResult == [status |-> None]
NoResp == [status_code |-> 0]
NoReq == [id |-> None, ep |-> None]

\* the outcome of a worker's run up to its next suspension point
Outcome(p, rs, au, rp, cs) ==
    [pc |-> p, result |-> rs, audio_result |-> au, resp |-> rp, calls |-> cs]

\* ----------------------------------------------------------------- views
\* ask_ai_with_voice from TTSService() on, given the chat result
Speak_retry(res, cs) ==
    IF ~Configured(env.GOOGLE_API_KEY)
    THEN Outcome("done", res, tts_unavailable,
                 VoiceEnvelope(res, tts_unavailable),
                 cs \o <<Call("text_to_speech", res.response),
                         Call("text_to_speech", res.response)>>)
    ELSE Outcome("requests.post", res, NoResult, NoResp,
                 cs \o <<Call("text_to_speech", res.response),
                         Call("requests.post", res.response),
                         Call("requests.post", res.response)>>)
Speak(res, cs) ==
    IF ~Configured(env.GOOGLE_API_KEY)
    THEN Outcome("done", res, tts_unavailable,
                 VoiceEnvelope(res, tts_unavailable),
                 cs \o <<Call("text_to_speech", res.response)>>)
    ELSE Outcome("requests.post", res, NoResult, NoResp,
                 cs \o <<Call("text_to_speech", res.response),
                         Call("requests.post", res.response)>>)

\* ask_ai and ask_ai_with_voice once ask_question has returned
AfterChat(ep, res, cs) ==
    IF ep = "ask_ai"
    THEN Outcome("done", res, NoResult, jsonify(res), cs)
    ELSE Speak(res, cs)

\* the message of the blank-question response of each view
PleaseAsk(ep) ==
    IF ep = "ask_ai" THEN "Please ask a question" ELSE "Please ask a question!"

\* the blank test of ask_ai and ask_ai_with_voice: `if not question`
Blank_untrimmed(question) == question = <<>>
Blank(question) == strip(question) = <<>>

\* ask_ai and ask_ai_with_voice up to the first outbound call
AskView(ep, data) ==
    IF data.question.type = "null"
    THEN Outcome("done", NoResult, NoResult, SomethingWentWrong, <<>>)
    ELSE LET raw == IF data.question.type = "absent" THEN <<>>
                    ELSE data.question.s
             question == strip(raw)
         IN  IF Blank(raw)
             THEN Outcome("done", NoResult, NoResult,
                          ValidationError(PleaseAsk(ep)), <<>>)
             ELSE IF ~Configured(env.GOOGLE_API_KEY)
                  THEN AfterChat(ep, gemini_mock,
                                 <<Call("ask_question", question)>>)
                  ELSE Outcome("generate_content", NoResult, NoResult, NoResp,
                               <<Call("ask_question", question),
                                 Call("generate_content",
                                      full_prompt(question, data.history))>>)

\* get_iss_position (the view) up to the outbound call
IssView(data) ==
    IF N2YOShortCircuit
    THEN Outcome("done", NoResult, NoResult, jsonify(get_mock_data),
                 <<Call("get_iss_position", data)>>)
    ELSE Outcome("requests.get", NoResult, NoResult, NoResp,
                 <<Call("get_iss_position", data), Call("requests.get", data)>>)

View(ep, data) ==
    IF ep = "get_iss_position" THEN IssView(data) ELSE AskView(ep, data)

\* the warnings GeminiService() and TTSService() print when the views build
\* them without a Google key
init_warnings(ep, data) ==
    IF \/ ep = "get_iss_position"
       \/ data.question.type = "null"
       \/ data.question.type = "absent"
       \/ Blank(data.question.s)
       \/ Configured(env.GOOGLE_API_KEY)
    THEN <<>>
    ELSE <<<<"Warning: Google API key not found">>>>
             \o (IF ep = "ask_ai_with_voice"
                 THEN <<<<"Warning: Google API key not found for TTS">>>>
                 ELSE <<>>)

\* test: the view of /test
test ==
    jsonify([status |-> "success",
             message |-> "Flask app is running!",
             apis_configured |->
                 [n2yo |-> Configured(env.N2YO_API_KEY),
                  gemini |-> Configured(env.GOOGLE_API_KEY)]])

IsValidation(o) ==
    o.pc = "done" /\ o.calls = <<>> /\ o.resp.status_code = 200
        /\ o.resp.json.status = "error"

\* @app.route(...) over @limiter.limit(...): the limiter runs first and the
\* view runs only when the hit is within the limit
limit_inside_view(ok, k, view) ==
    IF IsValidation(view) \/ ok THEN view
    ELSE Outcome("done", NoResult, NoResult, RateLimitExceeded(k), <<>>)
limit(ok, k, view) ==
    IF ok THEN view
    ELSE Outcome("done", NoResult, NoResult, RateLimitExceeded(k), <<>>)


\* ---------------------------------------------------------------- inputs
\* the "question" member of the JSON body: absent, null, or a string
QuestionValues ==
    {[type |-> "absent"], [type |-> "null"],
     [type |-> "str", s |-> <<" ">>], [type |-> "str", s |-> <<" ", "a", " ">>]}

Histories ==
    {<<>>, [i \in 1..MaxHist |-> [question |-> "q1", response |-> "r1"]]}

\* a history comes with a question that is asked
AskBodies ==
    [question : QuestionValues, history : {<<>>}]
        \cup [question : {[type |-> "str", s |-> <<" ", "a", " ">>]},
              history : Histories]

\* tests/test_rate_limit.py: json={"question": f"Test question {i}"}
TestBody == [question |-> [type |-> "str", s |-> <<"a">>], history |-> <<>>]

\* request.args of /api/iss-position: lat and lng given or defaulted
IssArgs == {[lat |-> "51.45", lng |-> "-2.59"], [lat |-> "0.0", lng |-> "0.0"]}

Bodies(ep) == IF ep = "get_iss_position" THEN IssArgs ELSE AskBodies

BlankBody == [question |-> [type |-> "str", s |-> <<" ">>], history |-> <<>>]

BurstBodies(ep) ==
    IF ep = "get_iss_position" THEN {[lat |-> "51.45", lng |-> "-2.59"]}
    ELSE {TestBody, BlankBody}

\* os.environ as load_dotenv leaves it
Environments ==
    [GOOGLE_API_KEY : {None, "key"}, N2YO_API_KEY : {None, "key"},
     MOCK_MODE : BOOLEAN]

RECURSIVE Sum(_)
Sum(q) == IF q = <<>> THEN 0 ELSE Head(q) + Sum(Tail(q))

\* ------------------------------------------------------------------ state
Start ==
    /\ now = 0
    /\ storage = [k \in Keys |-> 0]
    /\ expirations = [k \in Keys |-> 0]
    /\ pc = [w \in Workers |-> "idle"]
    /\ req = [w \in Workers |-> NoReq]
    /\ result = [w \in Workers |-> NoResult]
    /\ audio_result = [w \in Workers |-> NoResult]
    /\ resp = [w \in Workers |-> NoResp]
    /\ calls = [w \in Workers |-> <<>>]
    /\ log = [w \in Workers |-> <<>>]
    /\ hits = [w \in Workers |-> 0]
    /\ full = [w \in Workers |-> FALSE]
    /\ verdict = [w \in Workers |-> None]
    /\ admitted = [k \in Keys |-> 0]
    /\ sent = [k \in Keys |-> [i \in 1..PeriodTicks |-> 0]]
    /\ rejected = [k \in Keys |-> FALSE]
    /\ issued = 0
    /\ ctxIn = [question |-> None, history |-> <<>>]
    /\ ctxOut = <<>>

\* the dispatcher under any environment, serving a few requests
Init ==
    /\ Start
    /\ env \in Environments
    /\ burst = <<"A", "ask_ai">>
    /\ burstBody = TestBody

Unconfigured == [GOOGLE_API_KEY |-> None, N2YO_API_KEY |-> None, MOCK_MODE |-> FALSE]
AllConfigured == [GOOGLE_API_KEY |-> "key", N2YO_API_KEY |-> "key", MOCK_MODE |-> FALSE]

\* the dispatcher under a client that bursts on one endpoint
InitBurst ==
    /\ Start
    /\ env = Unconfigured
    /\ burst \in {"A"} \X Endpoints
    /\ burstBody \in BurstBodies(burst[2])

ledger == <<storage, expirations, admitted, rejected>>
worker == <<pc, req, result, audio_result, resp, calls, log, hits, full,
            verdict>>
ctx == <<ctxIn, ctxOut>>
client == <<burst, burstBody>>

\* the requests of a key that wait for the limiter
Pending(k) ==
    Cardinality({w \in Workers :
                    pc[w] = "limit" /\ key_func(req[w].id, req[w].ep) = k})

\* a worker thread is free before its first request and once it has answered
Free(w) == pc[w] \in {"idle", "done"}

\* a request arrives and is handed to a free worker thread
Receive(w, id, ep, data) ==
    /\ Free(w)
    /\ w = FirstWorker \/ ~Free(FirstWorker)
    /\ pc' = [pc EXCEPT ![w] = "limit"]
    /\ req' = [req EXCEPT ![w] = [id |-> id, ep |-> ep, data |-> data]]
    /\ result' = [result EXCEPT ![w] = NoResult]
    /\ audio_result' = [audio_result EXCEPT ![w] = NoResult]
    /\ resp' = [resp EXCEPT ![w] = NoResp]
    /\ calls' = [calls EXCEPT ![w] = <<>>]
    /\ log' = [log EXCEPT ![w] = <<>>]
    /\ hits' = [hits EXCEPT ![w] = 0]
    /\ full' = [full EXCEPT ![w] = FALSE]
    /\ verdict' = [verdict EXCEPT ![w] = None]
    /\ UNCHANGED <<env, now, ledger, sent, client, ctx>>

\* the client of the burst key keeps sending, past the limit
ReceiveBurst(w) ==
    /\ Count(burst) + Pending(burst) < RouteLimit(burst[2]) + MaxOver
    /\ Receive(w, burst[1], burst[2], burstBody)
    /\ UNCHANGED issued

\* a client that paces itself: never more than the limit within a period
ReceivePaced(w) ==
    /\ Sum(sent[burst]) + Pending(burst) < RouteLimit(burst[2])
    /\ Receive(w, burst[1], burst[2], burstBody)
    /\ UNCHANGED issued

\* a few requests of another client besides the burst
ReceiveFew(w) ==
    /\ issued < MaxOther
    /\ issued' = issued + 1
    /\ \E ep \in Endpoints :
          \E data \in BurstBodies(ep) \ {BlankBody} : Receive(w, "B", ep, data)

\* a request of any kind from one client
ReceiveOther(w) ==
    /\ issued < MaxRequests
    /\ issued' = issued + 1
    /\ \E ep \in Endpoints :
          \E data \in Bodies(ep) : Receive(w, "A", ep, data)

\* the decorated view, from the limiter's hit to the first outbound call
Run(w) ==
    /\ pc[w] = "limit"
    /\ LET r == req[w]
           k == key_func(r.id, r.ep)
           count == Count(k) + 1
           ok == WithinLimit(count, r.ep)
           o == limit(ok, k, View(r.ep, r.data))
           c == <<r.id, r.ep>>
       IN  /\ storage' = [storage EXCEPT ![k] = count]
           /\ expirations' = [expirations EXCEPT ![k] = WindowExpiry(k)]
           /\ admitted' = [admitted EXCEPT ![c] = @ + (IF ok THEN 1 ELSE 0)]
           /\ rejected' = [rejected EXCEPT ![c] = @ \/ ~ok]
           /\ hits' = [hits EXCEPT ![w] = storage'[k] - Count(k)]
           /\ full' = [full EXCEPT ![w] = admitted[c] >= RouteLimit(r.ep)]
           /\ verdict' = [verdict EXCEPT ![w] = IF ok THEN "admitted" ELSE "rejected"]
           /\ pc' = [pc EXCEPT ![w] = o.pc]
           /\ result' = [result EXCEPT ![w] = o.result]
           /\ audio_result' = [audio_result EXCEPT ![w] = o.audio_result]
           /\ resp' = [resp EXCEPT ![w] = o.resp]
           /\ calls' = [calls EXCEPT ![w] = o.calls]
           /\ log' = [log EXCEPT ![w] =
                         IF ok THEN init_warnings(r.ep, r.data) ELSE <<>>]
    /\ UNCHANGED <<env, now, req, issued, client, ctx>>

Dispatch(w) == Run(w) /\ UNCHANGED sent

\* the same, keeping the log of the key's requests over the last period
PacedDispatch(w) ==
    /\ Run(w)
    /\ sent' = [sent EXCEPT ![<<req[w].id, req[w].ep>>][1] = @ + 1]

\* a worker goes on after an outbound call
Resume(w, o, lines) ==
    /\ log' = [log EXCEPT ![w] = @ \o lines]
    /\ pc' = [pc EXCEPT ![w] = o.pc]
    /\ result' = [result EXCEPT ![w] = o.result]
    /\ audio_result' = [audio_result EXCEPT ![w] = o.audio_result]
    /\ resp' = [resp EXCEPT ![w] = o.resp]
    /\ calls' = [calls EXCEPT ![w] = o.calls]
    /\ UNCHANGED <<env, now, ledger, sent, req, hits, full, verdict, issued,
                   client, ctx>>

\* model.generate_content returns or raises; ask_question returns
GeminiReturn(w) ==
    /\ pc[w] = "generate_content"
    /\ \E outcome \in GeminiOutcomes :
          Resume(w, AfterChat(req[w].ep, gemini_result(outcome), calls[w]),
                 gemini_print(outcome))

\* requests.post of text_to_speech returns or raises
TTSReturn(w) ==
    /\ pc[w] = "requests.post"
    /\ \E outcome \in TTSOutcomes :
          Resume(w, Outcome("done", result[w], tts_result(outcome),
                            VoiceEnvelope(result[w], tts_result(outcome)),
                            calls[w]),
                 tts_print(outcome))

\* requests.get of get_iss_position returns or raises
N2YOReturn(w) ==
    /\ pc[w] = "requests.get"
    /\ \E outcome \in N2YOOutcomes :
          Resume(w, Outcome("done", NoResult, NoResult,
                            jsonify(n2yo_result(outcome)), calls[w]),
                 n2yo_print(outcome))

\* time.time() advances; the storage drops the counters that expired
Elapse ==
    /\ now < MaxTime
    /\ now' = now + 1
    /\ storage' = [k \in Keys |-> IF expirations[k] <= now + 1 THEN 0 ELSE storage[k]]
    /\ expirations' = [k \in Keys |-> IF expirations[k] <= now + 1 THEN 0
                                      ELSE expirations[k]]
    /\ admitted' = [k \in Keys |-> IF expirations[k] <= now + 1 THEN 0 ELSE admitted[k]]
    /\ UNCHANGED <<env, rejected, worker, issued, client, ctx>>

Tick == Elapse /\ UNCHANGED sent

\* the same, shifting the log of requests by one tick
PacedTick ==
    /\ Elapse
    /\ sent' = [k \in Keys |-> <<0>> \o SubSeq(sent[k], 1, PeriodTicks - 1)]

Next ==
    \/ \E w \in Workers : ReceiveOther(w)
    \/ \E w \in Workers : Dispatch(w)
    \/ \E w \in Workers : GeminiReturn(w)
    \/ \E w \in Workers : TTSReturn(w)
    \/ \E w \in Workers : N2YOReturn(w)
    \/ Tick

Spec == Init /\ [][Next]_vars

NextBurst ==
    \/ \E w \in Workers : ReceiveBurst(w)
    \/ \E w \in Workers : ReceiveFew(w)
    \/ \E w \in Workers : Dispatch(w)
    \/ Tick

SpecBurst == InitBurst /\ [][NextBurst]_vars

\* an outbound call of a worker returns or raises
Return(w) == GeminiReturn(w) \/ TTSReturn(w) \/ N2YOReturn(w)

\* an outbound call that was given a timeout returns or raises in the end
TimedReturn(w) ==
    /\ pc[w] \in Outbound
    /\ timeout(pc[w]) # {}
    /\ Return(w)

\* a worker thread that can run does run; a call returns when it is timed
Fairness ==
    \A w \in Workers : WF_vars(Dispatch(w)) /\ WF_vars(TimedReturn(w))

\* the dispatcher with its threads scheduled and its timed calls bounded
SpecLive == Init /\ [][Next]_vars /\ Fairness

\* the dispatcher under a client that keeps to the limit of one endpoint
InitPaced ==
    /\ Start
    /\ env = Unconfigured
    /\ burst \in {"A"} \X Endpoints
    /\ burstBody \in BurstBodies(burst[2]) \ {BlankBody}

NextPaced ==
    \/ \E w \in Workers : ReceivePaced(w)
    \/ \E w \in Workers : PacedDispatch(w)
    \/ PacedTick

SpecPaced == InitPaced /\ [][NextPaced]_vars


\* the context builder of ask_question, on every question and history
InitCtx ==
    /\ Start
    /\ env = AllConfigured
    /\ burst = <<"A", "ask_ai">>
    /\ burstBody = TestBody

CtxInputs == [question : Questions, history : SeqsUpTo(Turns, MaxHist)]

\* ask_question receives a question and a history
CtxCall ==
    /\ ctxOut = <<>>
    /\ ctxIn' \in CtxInputs
    /\ UNCHANGED <<env, now, ledger, sent, worker, issued, client, ctxOut>>

\* ask_question builds the prompt
CtxBuild ==
    /\ ctxIn.question # None
    /\ ctxOut = <<>>
    /\ ctxOut' = full_prompt(ctxIn.question, ctxIn.history)
    /\ UNCHANGED <<env, now, ledger, sent, worker, issued, client, ctxIn>>

NextCtx == CtxCall \/ CtxBuild

SpecCtx == InitCtx /\ [][NextCtx]_vars


\* ------------------------------------------------------------ properties

\* C1: the request that finds the window of its key already holding the limit
\* of admitted requests (request number limit + 1 of the period) is answered
\* 429 with a strictly positive Retry-After, and the view makes no call.
C1_RejectedWithRetryAfter ==
    \A w \in Workers :
        (pc[w] = "done" /\ full[w]) =>
            /\ resp[w].status_code = 429
            /\ calls[w] = <<>>
            /\ \E h \in resp[w].headers : h[1] = "Retry-After" /\ h[2] > 0

\* C2: under a client that never sends more than the limit within any period
\* (SpecPaced), no request is ever rejected.
C2_PacedNeverRejected ==
    /\ \A k \in Keys : ~rejected[k]
    /\ \A w \in Workers : verdict[w] # "rejected"

\* the last period holds exactly the limit of requests, spread over two
\* windows of the limiter, and all were admitted
C2_Sustained ==
    \E k \in Keys :
        /\ Sum(sent[k]) = RouteLimit(k[2])
        /\ 0 < admitted[k] /\ admitted[k] < Sum(sent[k])
        /\ ~rejected[k]

C4_ProviderFailureIsSuccess ==
    \A w \in Workers :
        (/\ pc[w] = "done"
         /\ req[w].ep \in {"ask_ai", "ask_ai_with_voice"}
         /\ verdict[w] = "admitted"
         /\ req[w].data.question.type = "str"
         /\ \E i \in 1..Len(req[w].data.question.s) :
               req[w].data.question.s[i] # " ")
        => /\ resp[w].status_code = 200
           /\ resp[w].json.status = "success"
           /\ "source" \in DOMAIN resp[w].json

\* C5: two invocations of the same client without a credential make no
\* outbound call and return equal results.
C5_UnconfiguredDeterministic ==
    \A w, v \in Workers :
        (/\ pc[w] = "done" /\ pc[v] = "done"
         /\ verdict[w] = "admitted" /\ verdict[v] = "admitted"
         /\ req[w].ep = req[v].ep
         /\ calls[w] # <<>> /\ calls[v] # <<>>
         /\ IF req[w].ep = "get_iss_position"
            THEN ~Configured(env.N2YO_API_KEY)
            ELSE ~Configured(env.GOOGLE_API_KEY))
        => /\ resp[w] = resp[v]
           /\ \A i \in 1..Len(calls[w]) :
                 calls[w][i].fn \notin
                     {"requests.get", "requests.post", "generate_content"}

\* C6: the limiter's hit comes first: nothing is validated, built or called
\* before it, a request it rejects is answered 429 with no call made and no
\* validation response, and every request past it has added its unit.
C6_AdmissionFirst ==
    \A w \in Workers :
        /\ pc[w] \in {"idle", "limit"} =>
              hits[w] = 0 /\ calls[w] = <<>> /\ resp[w] = NoResp
        /\ pc[w] \notin {"idle", "limit"} =>
              /\ hits[w] = 1
              /\ verdict[w] = "rejected" =>
                    /\ pc[w] = "done"
                    /\ resp[w].status_code = 429
                    /\ calls[w] = <<>>
              /\ verdict[w] = "admitted" => resp[w].status_code # 429

\* a request with a blank question is rejected by the limiter
C6_BlankRejected ==
    \E w \in Workers :
        /\ pc[w] = "done"
        /\ verdict[w] = "rejected"
        /\ req[w].data = BlankBody
        /\ resp[w].status_code = 429

\* C7: an admitted chat or chat-with-speech request whose question is absent,
\* empty or all whitespace gets {status: "error", message} and no provider is
\* called; one whose question has another character never gets that answer.
C7_BlankQuestion ==
    \A w \in Workers :
        (/\ pc[w] \notin {"idle", "limit"}
         /\ req[w].ep \in {"ask_ai", "ask_ai_with_voice"}
         /\ verdict[w] = "admitted")
        => LET q == req[w].data.question
               blank == \/ q.type = "absent"
                        \/ /\ q.type = "str"
                           /\ \A i \in 1..Len(q.s) : q.s[i] = " "
               asked == /\ q.type = "str"
                        /\ \E i \in 1..Len(q.s) : q.s[i] # " "
               refused == /\ resp[w].status_code = 200
                          /\ DOMAIN resp[w].json = {"status", "message"}
                          /\ resp[w].json.status = "error"
                          /\ resp[w].json.message = PleaseAsk(req[w].ep)
           IN  /\ blank => pc[w] = "done" /\ refused /\ calls[w] = <<>>
               /\ asked => ~refused

\* a question of whitespace only was refused
C7_WhitespaceRefused ==
    \E w \in Workers :
        /\ pc[w] = "done"
        /\ req[w].ep = "ask_ai_with_voice"
        /\ verdict[w] = "admitted"
        /\ req[w].data.question = [type |-> "str", s |-> <<" ">>]
        /\ resp[w].json.status = "error"

\* C8: the chat-with-speech response of a non-blank question carries the
\* response and source of the chat result, audio_available exactly when the
\* speech result is a success, and audio_data exactly when audio_available;
\* without a Google key audio_available is false and audio_data is None.
C8_VoiceEnvelope ==
    \A w \in Workers :
        (/\ pc[w] = "done"
         /\ req[w].ep = "ask_ai_with_voice"
         /\ verdict[w] = "admitted"
         /\ req[w].data.question.type = "str"
         /\ \E i \in 1..Len(req[w].data.question.s) :
               req[w].data.question.s[i] # " ")
        => LET j == resp[w].json
           IN  /\ resp[w].status_code = 200
               /\ j.response = result[w].response
               /\ j.source = result[w].source
               /\ j.audio_available <=> audio_result[w].status = "success"
               /\ j.audio_data # None <=> j.audio_available
               /\ ~Configured(env.GOOGLE_API_KEY) =>
                     ~j.audio_available /\ j.audio_data = None

\* the chat answered and the speech call failed
C8_ChatWithoutAudio ==
    \E w \in Workers :
        /\ pc[w] = "done"
        /\ req[w].ep = "ask_ai_with_voice"
        /\ result[w].status = "success"
        /\ audio_result[w].status = "error"
        /\ resp[w].status_code = 200
        /\ ~resp[w].json.audio_available

\* C9: the prompt is the preamble, then for a history of n > 0 turns the
\* heading and the last min(n, 3) turns in their order, then the question and
\* the answer cue; for an empty history it has no heading.
C9_Prompt ==
    ctxOut # <<>> =>
        LET h == ctxIn.history
            n == Len(h)
            m == Min(n, 3)
            kept == [i \in 1..m |-> h[n - m + i]]
            base == IF n = 0 THEN 1 ELSE 2 + 4 * m
        IN  /\ ctxOut[1] = "system_prompt"
            /\ Len(ctxOut) = base + 3
            /\ n = 0 => \A i \in 1..Len(ctxOut) :
                            ctxOut[i] # "Previous conversation:"
            /\ n > 0 => ctxOut[2] = "Previous conversation:"
            /\ n > 0 => \A i \in 1..m :
                  SubSeq(ctxOut, 4 * i - 1, 4 * i + 2) =
                      <<"Child:", kept[i].question,
                        "Space Guide:", kept[i].response>>
            /\ SubSeq(ctxOut, base + 1, base + 3) =
                   <<"Child:", ctxIn.question, "Space Guide:">>

\* a prompt was built from a history of more than three turns
C9_LongHistory == ctxOut # <<>> /\ Len(ctxIn.history) > 3

\* C10: a request changes the counter and expiry of its own key (caller and
\* endpoint) only, and is admitted whenever its own key has budget left,
\* whatever the state of the other keys.
C10_OwnKeyOnly ==
    [][/\ \A k \in Keys :
            (now' = now /\ (storage'[k] # storage[k]
                            \/ expirations'[k] # expirations[k]))
            => \E w \in Workers :
                  /\ pc[w] = "limit" /\ pc'[w] # "limit"
                  /\ <<req[w].id, req[w].ep>> = k
       /\ \A w \in Workers :
            (/\ pc[w] = "limit" /\ pc'[w] # "limit"
             /\ admitted[<<req[w].id, req[w].ep>>] < RouteLimit(req[w].ep))
            => verdict'[w] = "admitted"]_vars

\* a request of B is admitted while the window of A on the same endpoint is
\* used up
C10_OtherCallerAdmitted ==
    \E w \in Workers :
        /\ pc[w] = "done"
        /\ req[w].id = "B"
        /\ verdict[w] = "admitted"
        /\ rejected[<<"A", req[w].ep>>]
        /\ Count(<<"A", req[w].ep>>) > RouteLimit(req[w].ep)

\* C11: with an N2YO key and mock mode off, every way the outbound call can
\* fail to yield a position makes get_iss_position answer the mock payload
\* with status "success": never an error result.
C11_FailureIsFallback ==
    \A w \in Workers :
        (/\ pc[w] = "done"
         /\ req[w].ep = "get_iss_position"
         /\ verdict[w] = "admitted"
         /\ ~N2YOShortCircuit)
        => LET j == resp[w].json
           IN  /\ resp[w].status_code = 200
               /\ j.status = "success"
               /\ "data_source" \notin DOMAIN j =>
                     /\ j.satellite_name = get_mock_data.satellite_name
                     /\ j.latitude = get_mock_data.latitude
                     /\ j.longitude = get_mock_data.longitude
                     /\ j.altitude_km = get_mock_data.altitude_km

\* C12: a hit that is rejected leaves the counter and the expiry of its key
\* as they were, and a request is rejected exactly while the window of its
\* key holds the limit of admitted requests.
C12_RejectionRecordsNothing ==
    [][\A w \in Workers :
          (pc[w] = "limit" /\ pc'[w] # "limit") =>
              LET k == <<req[w].id, req[w].ep>>
              IN  /\ verdict'[w] = "rejected" <=>
                        admitted[k] >= RouteLimit(req[w].ep)
                  /\ verdict'[w] = "rejected" =>
                        /\ storage'[k] = storage[k]
                        /\ expirations'[k] = expirations[k]]_vars

\* the rest of C12 without the ledger entry: a rejected hit leaves the expiry
\* of its key and the admitted requests of its window as they were
C12_RejectionKeepsWindow ==
    [][\A w \in Workers :
          (pc[w] = "limit" /\ pc'[w] # "limit") =>
              LET k == <<req[w].id, req[w].ep>>
              IN  /\ verdict'[w] = "rejected" <=>
                        admitted[k] >= RouteLimit(req[w].ep)
                  /\ verdict'[w] = "rejected" =>
                        /\ expirations'[k] = expirations[k]
                        /\ admitted'[k] = admitted[k]]_vars

\* a client that was rejected is admitted again once its window has expired
C12_Readmitted ==
    \E w \in Workers :
        /\ pc[w] = "done"
        /\ verdict[w] = "admitted"
        /\ <<req[w].id, req[w].ep>> = burst
        /\ rejected[burst]
        /\ now = PeriodTicks
        /\ Count(burst) = 1

\* C13: every outbound call carries the 10-unit timeout, so every call
\* returns and every request a worker has taken gets its response.
C13_EveryCallReturns ==
    /\ [](\A w \in Workers :
             pc[w] \in Outbound => timeout(pc[w]) = {TIMEOUT})
    /\ \A w \in Workers : (pc[w] \notin {"idle", "done"}) ~> (pc[w] = "done")

\* C14: the calls of one chat-with-speech dispatch are one ask_question
\* (with at most one generate_content), then, once it has returned, at most
\* one text_to_speech (with at most one requests.post) on the response of
\* the chat result; the chat call and the speech call never overlap and no
\* call is made twice.
C14_ChatThenSpeech ==
    \A w \in Workers :
        (/\ pc[w] \notin {"idle", "limit"}
         /\ req[w].ep = "ask_ai_with_voice"
         /\ calls[w] # <<>>)
        => LET cs == calls[w]
               At(fn) == {i \in 1..Len(cs) : cs[i].fn = fn}
           IN  /\ At("ask_question") = {1}
               /\ \A fn \in {"generate_content", "text_to_speech",
                              "requests.post"} : Cardinality(At(fn)) <= 1
               /\ \A i \in At("text_to_speech") :
                     /\ result[w] # NoResult
                     /\ cs[i].arg = result[w].response
                     /\ \A j \in At("generate_content") : j < i
                     /\ \A j \in At("requests.post") :
                           j = i + 1 /\ cs[j].arg = result[w].response
               /\ At("requests.post") # {} => At("text_to_speech") # {}
               /\ pc[w] = "generate_content" =>
                     /\ result[w] = NoResult
                     /\ At("text_to_speech") = {} /\ At("requests.post") = {}
               /\ pc[w] = "requests.post" => result[w] # NoResult
               /\ pc[w] = "done" => Cardinality(At("text_to_speech")) = 1

\* the chat call failed and the speech call failed, each made once
C14_BothFailedOnce ==
    \E w \in Workers :
        /\ pc[w] = "done"
        /\ req[w].ep = "ask_ai_with_voice"
        /\ Len(calls[w]) = 4
        /\ result[w].status = "error"
        /\ audio_result[w].status = "error"

\* C15: no printed line and no response body holds a credential's value, and
\* /test reports the credentials as booleans only.  (Of a body the textual
\* members are compared; timestamp and audio_available are a number and a
\* boolean.)
C15_NoCredentialInOutput ==
    LET Secrets == {env.GOOGLE_API_KEY, env.N2YO_API_KEY} \ {None}
        Textual == {"status", "message", "response", "source", "audio_data",
                    "satellite_name", "latitude", "longitude", "altitude_km",
                    "data_source"}
    IN  /\ \A w \in Workers :
              /\ \A i \in 1..Len(log[w]) :
                    \A j \in 1..Len(log[w][i]) : log[w][i][j] \notin Secrets
              /\ "json" \in DOMAIN resp[w] =>
                    \A f \in DOMAIN resp[w].json \cap Textual :
                        resp[w].json[f] \notin Secrets
              /\ "description" \in DOMAIN resp[w] =>
                    resp[w].description \notin Secrets
        /\ test.json.status \notin Secrets
        /\ test.json.message \notin Secrets
        /\ \A p \in DOMAIN test.json.apis_configured :
              test.json.apis_configured[p] \in BOOLEAN

====
